---- MODULE Spec2Model ----
(***************************************************************************)
(* Model of the relay control bridge of dstur-relay-gui                    *)
(* (src-tauri/src/lib.rs): the process-wide cached path of relay.exe       *)
(* (RELAY_PATH, a OnceLock), the candidate search of relay_exe_path, the   *)
(* child process invocation of run_relay and the four commands             *)
(* relay_list_ports, relay_status, relay_set and relay_all.                *)
(*                                                                         *)
(* A command is a sequence of steps of its calling thread: the call itself *)
(* (validation, argument assembly and the read of RELAY_PATH, all local up *)
(* to that read), one step per p.exists() probe of first_existing (the     *)
(* last one including RELAY_PATH.set and the return), and one step for     *)
(* Command::output.  The file system changes between any two steps.        *)
(***************************************************************************)
EXTENDS Integers, Sequences, FiniteSets, TLC

VARIABLES
  fs,          \* the paths that exist on disk (among the candidate paths)
  env,         \* what executable_dir() and current_exe() answer in this process
  RELAY_PATH,  \* the OnceLock<PathBuf>
  pc,          \* per thread: "idle", "probe" (inside first_existing), "spawn"
  inp,         \* per thread: the parameters of the command being run
  args,        \* per thread: the argument vector built by the command
  candidates,  \* per thread: relay_exe_path's candidates
  i,           \* per thread: position of the iterator of first_existing
  probed,      \* per thread: the probes made, <<path, answer>>, in order
  exe,         \* per thread: run_relay's exe (an Option)
  hit,         \* per thread: RELAY_PATH.get() answered Some
  wrote,       \* per thread: this call's RELAY_PATH.set stored its value
  after,       \* per thread: a resolution had succeeded when the call began
  last,        \* the record of the command that returned last, where results are
               \* observed; NoLast from the next call on
  firstPath,   \* the path returned by the first successful resolution
  resErrSeen   \* some command has returned the "not found" error

vars == <<fs, env, RELAY_PATH, pc, inp, args, candidates, i, probed, exe, hit,
          wrote, after, last, firstPath, resErrSeen>>

(***************************************************************************)
(* Bounds of the model.                                                    *)
(***************************************************************************)
NumThreads == 2

Threads == 1..NumThreads

(***************************************************************************)
(* Option, Result and paths.  A path is the sequence of its components.    *)
(***************************************************************************)
None == <<>>
Some(x) == <<x>>
IsSome(o) == o # None
Unwrap(o) == o[1]

PathJoin(p, c) == Append(p, c)
PathParent(p) == IF Len(p) = 0 THEN None ELSE Some(SubSeq(p, 1, Len(p) - 1))

RECURSIVE PathDisplay(_)
PathDisplay(p) ==
  IF Len(p) = 0 THEN ""
  ELSE IF Len(p) = 1 THEN p[1]
  ELSE PathDisplay(SubSeq(p, 1, Len(p) - 1)) \o "/" \o p[Len(p)]

NoCmd == [ok |-> FALSE, code |-> None, stdout |-> <<>>, stderr |-> <<>>]
Ok(v) == [tag |-> "Ok", v |-> v, e |-> <<>>]
Err(e) == [tag |-> "Err", v |-> NoCmd, e |-> e]

(***************************************************************************)
(* The environment: the directories the host reports, and the build root.  *)
(***************************************************************************)
CARGO_MANIFEST_DIR == <<"src-tauri">>
ExecutableDirAnswers == {None, Some(<<"appdir">>)}
CurrentExeAnswers == {None, Some(<<"procdir", "gui.exe">>)}

CandidatesBinFirst(e) ==
  LET c1 == IF IsSome(e.executable_dir)
            THEN <<PathJoin(Unwrap(e.executable_dir), "relay.exe")>>
            ELSE <<>>
      c2 == IF IsSome(e.current_exe) /\ IsSome(PathParent(Unwrap(e.current_exe)))
            THEN <<PathJoin(Unwrap(PathParent(Unwrap(e.current_exe))), "relay.exe")>>
            ELSE <<>>
      c3 == <<PathJoin(PathJoin(CARGO_MANIFEST_DIR, "bin"), "relay.exe")>>
      c4 == <<PathJoin(PathJoin(CARGO_MANIFEST_DIR, ".."), "relay.exe")>>
      c5 == <<PathJoin(PathJoin(PathJoin(CARGO_MANIFEST_DIR, ".."), ".."), "relay.exe")>>
  IN c3 \o c1 \o c2 \o c4 \o c5

Candidates(e) ==
  LET c1 == IF IsSome(e.executable_dir)
            THEN <<PathJoin(Unwrap(e.executable_dir), "relay.exe")>>
            ELSE <<>>
      c2 == IF IsSome(e.current_exe) /\ IsSome(PathParent(Unwrap(e.current_exe)))
            THEN <<PathJoin(Unwrap(PathParent(Unwrap(e.current_exe))), "relay.exe")>>
            ELSE <<>>
      c3 == <<PathJoin(PathJoin(CARGO_MANIFEST_DIR, "bin"), "relay.exe")>>
      c4 == <<PathJoin(PathJoin(CARGO_MANIFEST_DIR, ".."), "relay.exe")>>
      c5 == <<PathJoin(PathJoin(PathJoin(CARGO_MANIFEST_DIR, ".."), ".."), "relay.exe")>>
  IN c1 \o c2 \o c3 \o c4 \o c5

CandidatePaths(e) == {Candidates(e)[k] : k \in 1..Len(Candidates(e))}

PathExists(p) == p \in fs

(***************************************************************************)
(* std::sync::OnceLock: get, and set, which stores only into an empty cell. *)
(***************************************************************************)
OnceLockGetNeverSet(cell) == None

OnceLockGet(cell) == cell

OnceLockSetOverwrites(cell, v) == Some(v)

OnceLockSet(cell, v) == IF cell = None THEN Some(v) ELSE cell

(***************************************************************************)
(* first_existing: one turn of candidates.iter().find(|p| p.exists()),     *)
(* given the answer of p.exists() for the candidate at position k.         *)
(***************************************************************************)
FindStep(cands, k, answer) ==
  IF answer THEN "found"
  ELSE IF k < Len(cands) THEN "next"
  ELSE "none"

(***************************************************************************)
(* relay_exe_path, lines 53-61: the failure path builds the message and     *)
(* leaves RELAY_PATH as it is.                                              *)
(***************************************************************************)
CellAfterFailureCachesFallback(cell, cands) == OnceLockSet(cell, cands[1])

CellAfterFailure(cell, cands) == cell

CheckedLines(cands) == [k \in 1..Len(cands) |-> "  - " \o PathDisplay(cands[k])]

NotFoundPrefix == "relay.exe not found. Checked:"
NotFoundFix ==
  "Fix: place relay.exe in src-tauri/bin/relay.exe (recommended) and set bundle.externalBin to [\"bin/relay.exe\"], or place relay.exe next to the running executable."

ResolutionErr(cands) == <<NotFoundPrefix, CheckedLines(cands), NotFoundFix>>

(***************************************************************************)
(* Numbers to text: u8::to_string and f32::to_string.  An f32 duration is   *)
(* modelled by its number of tenths; Display prints the shortest decimal    *)
(* that reads back as the same value, without a fraction for whole numbers. *)
(***************************************************************************)
Digit(d) ==
  CASE d = 0 -> "0" [] d = 1 -> "1" [] d = 2 -> "2" [] d = 3 -> "3" [] d = 4 -> "4"
    [] d = 5 -> "5" [] d = 6 -> "6" [] d = 7 -> "7" [] d = 8 -> "8" [] d = 9 -> "9"

RECURSIVE Decimal(_)
Decimal(n) == IF n < 10 THEN Digit(n) ELSE Decimal(n \div 10) \o Digit(n % 10)

U8ToString(n) == Decimal(n)

F32ToString(x) ==
  LET a == IF x < 0 THEN -x ELSE x
      whole == Decimal(a \div 10)
      frac == IF a % 10 = 0 THEN "" ELSE "." \o Digit(a % 10)
  IN (IF x < 0 THEN "-" ELSE "") \o whole \o frac

(***************************************************************************)
(* The commands' validation and argument assembly.                          *)
(***************************************************************************)
RelayValidNoUpperBound(relay) == ~(relay < 1)

RelayValidNoLowerBound(relay) == ~(relay > 8)

RelayValid(relay) == ~(relay < 1 \/ relay > 8)

ValidationErr == <<"Relay number must be 1..8">>

PortArgs(port) == IF IsSome(port) THEN <<"--port", Unwrap(port)>> ELSE <<>>

SecondsArgs(seconds) ==
  IF IsSome(seconds) THEN <<"--seconds", F32ToString(Unwrap(seconds))>> ELSE <<>>

ListPortsArgs == <<"list-ports", "--json">>

StatusArgs(port, target) == PortArgs(port) \o <<"status">> \o <<target>>

SetArgsSecondsFirst(port, relay, state, seconds) ==
  PortArgs(port) \o <<"relay">> \o <<U8ToString(relay)>> \o SecondsArgs(seconds) \o <<state>>

SetArgs(port, relay, state, seconds) ==
  PortArgs(port) \o <<"relay">> \o <<U8ToString(relay)>> \o <<state>> \o SecondsArgs(seconds)

AllArgs(port, state, seconds) ==
  PortArgs(port) \o <<"all">> \o <<state>> \o SecondsArgs(seconds)

(***************************************************************************)
(* run_relay: Command::output and the CmdResult made of it.  A child that   *)
(* ran has an ExitStatus: it exited with a code, or was ended by a signal.  *)
(***************************************************************************)
Exited(c) == [exited |-> TRUE, n |-> c]
Signaled(s) == [exited |-> FALSE, n |-> s]

StatusSuccessAnyExit(status) == status.exited

StatusSuccess(status) == status.exited /\ status.n = 0

StatusCode(status) == IF status.exited THEN Some(status.n) ELSE None

FromUtf8Lossy(bytes) ==
  [k \in 1..Len(bytes) |-> IF bytes[k] < 128 THEN bytes[k] ELSE 65533]

LaunchErr(path, oserr) == <<"Failed to run ", PathDisplay(path), ": ", oserr>>

SpawnFailed(oserr) ==
  [launched |-> FALSE, oserr |-> oserr, status |-> Exited(0), stdout |-> <<>>, stderr |-> <<>>]
Ran(status, out, err) ==
  [launched |-> TRUE, oserr |-> "", status |-> status, stdout |-> out, stderr |-> err]

\* What Command::new(path).output() can answer: a missing file cannot be
\* started; a file that is there may still fail to start.
Output(path, statuses, outs) ==
  IF ~PathExists(path)
  THEN {SpawnFailed("NotFound")}
  ELSE {SpawnFailed("PermissionDenied")}
       \cup {Ran(s, o, <<>>) : s \in statuses, o \in outs}

RunResultSwallowsLaunchFailure(path, o) ==
  IF ~o.launched THEN Ok(NoCmd)
  ELSE Ok([ok |-> StatusSuccess(o.status), code |-> StatusCode(o.status),
           stdout |-> FromUtf8Lossy(o.stdout), stderr |-> FromUtf8Lossy(o.stderr)])

RunResult(path, o) ==
  IF ~o.launched THEN Err(LaunchErr(path, o.oserr))
  ELSE Ok([ok |-> StatusSuccess(o.status), code |-> StatusCode(o.status),
           stdout |-> FromUtf8Lossy(o.stdout), stderr |-> FromUtf8Lossy(o.stderr)])

(***************************************************************************)
(* State of a thread that runs no command, and the record of a command.     *)
(***************************************************************************)
NoInp ==
  [op |-> "", port |-> None, target |-> "", relay |-> 0, state |-> "", seconds |-> None]

NoLast ==
  [done |-> FALSE, inp |-> NoInp, args |-> <<>>, ret |-> Err(<<"">>), exe |-> None,
   cands |-> <<>>, probed |-> <<>>, attempted |-> FALSE, status |-> None,
   wrote |-> FALSE, hit |-> FALSE, after |-> FALSE, missing |-> FALSE]

\* The record is kept where the commands' results are observed.
Observe(observed, r) == IF observed THEN r ELSE NoLast

Returned(t, in, a, ret, attempted, status, missing) ==
  [done |-> TRUE, inp |-> in, args |-> a, ret |-> ret, exe |-> exe[t],
   cands |-> candidates[t], probed |-> probed[t], attempted |-> attempted,
   status |-> status, wrote |-> wrote[t], hit |-> hit[t], after |-> after[t],
   missing |-> missing]

Reset(t) ==
  /\ pc' = [pc EXCEPT ![t] = "idle"]
  /\ inp' = [inp EXCEPT ![t] = NoInp]
  /\ args' = [args EXCEPT ![t] = <<>>]
  /\ candidates' = [candidates EXCEPT ![t] = <<>>]
  /\ i' = [i EXCEPT ![t] = 0]
  /\ probed' = [probed EXCEPT ![t] = <<>>]
  /\ exe' = [exe EXCEPT ![t] = None]
  /\ hit' = [hit EXCEPT ![t] = FALSE]
  /\ wrote' = [wrote EXCEPT ![t] = FALSE]
  /\ after' = [after EXCEPT ![t] = FALSE]

Init ==
  /\ env \in [executable_dir : ExecutableDirAnswers, current_exe : CurrentExeAnswers]
  /\ fs \in SUBSET CandidatePaths(env)
  /\ RELAY_PATH = None
  /\ pc = [t \in Threads |-> "idle"]
  /\ inp = [t \in Threads |-> NoInp]
  /\ args = [t \in Threads |-> <<>>]
  /\ candidates = [t \in Threads |-> <<>>]
  /\ i = [t \in Threads |-> 0]
  /\ probed = [t \in Threads |-> <<>>]
  /\ exe = [t \in Threads |-> None]
  /\ hit = [t \in Threads |-> FALSE]
  /\ wrote = [t \in Threads |-> FALSE]
  /\ after = [t \in Threads |-> FALSE]
  /\ last = NoLast
  /\ firstPath = None
  /\ resErrSeen = FALSE

(***************************************************************************)
(* run_relay up to the first access of shared state: relay_exe_path reads   *)
(* RELAY_PATH; a set cell is returned at once, an empty one starts the      *)
(* search over the candidates.                                              *)
(***************************************************************************)
run_relay(t, in, a) ==
  /\ pc[t] = "idle"
  /\ inp' = [inp EXCEPT ![t] = in]
  /\ args' = [args EXCEPT ![t] = a]
  /\ after' = [after EXCEPT ![t] = IsSome(firstPath)]
  /\ probed' = [probed EXCEPT ![t] = <<>>]
  /\ wrote' = [wrote EXCEPT ![t] = FALSE]
  /\ last' = NoLast
  /\ IF IsSome(OnceLockGet(RELAY_PATH))
     THEN /\ pc' = [pc EXCEPT ![t] = "spawn"]
          /\ exe' = [exe EXCEPT ![t] = OnceLockGet(RELAY_PATH)]
          /\ hit' = [hit EXCEPT ![t] = TRUE]
          /\ candidates' = [candidates EXCEPT ![t] = <<>>]
          /\ i' = [i EXCEPT ![t] = 0]
     ELSE /\ pc' = [pc EXCEPT ![t] = "probe"]
          /\ exe' = [exe EXCEPT ![t] = None]
          /\ hit' = [hit EXCEPT ![t] = FALSE]
          /\ candidates' = [candidates EXCEPT ![t] = Candidates(env)]
          /\ i' = [i EXCEPT ![t] = 1]
  /\ UNCHANGED <<fs, env, RELAY_PATH, firstPath, resErrSeen>>

relay_list_ports(t) ==
  run_relay(t, [NoInp EXCEPT !.op = "relay_list_ports"], ListPortsArgs)

relay_status(t, port, target) ==
  run_relay(t, [NoInp EXCEPT !.op = "relay_status", !.port = port, !.target = target],
            StatusArgs(port, target))

relay_set(t, port, relay, state, seconds, observed) ==
  LET in == [NoInp EXCEPT !.op = "relay_set", !.port = port, !.relay = relay,
                          !.state = state, !.seconds = seconds]
  IN IF ~RelayValid(relay)
     THEN /\ pc[t] = "idle"
          /\ last' = Observe(observed,
                             Returned(t, in, <<>>, Err(ValidationErr), FALSE, None, FALSE))
          /\ UNCHANGED <<fs, env, RELAY_PATH, pc, inp, args, candidates, i, probed, exe,
                         hit, wrote, after, firstPath, resErrSeen>>
     ELSE run_relay(t, in, SetArgs(port, relay, state, seconds))

relay_all(t, port, state, seconds) ==
  run_relay(t, [NoInp EXCEPT !.op = "relay_all", !.port = port, !.state = state,
                             !.seconds = seconds],
            AllArgs(port, state, seconds))

(***************************************************************************)
(* relay_exe_path, one p.exists() of first_existing.  A hit stores the path *)
(* with RELAY_PATH.set, whose result is dropped, and returns found; the     *)
(* last miss returns the error.                                             *)
(***************************************************************************)
Probe(t, observed) ==
  /\ pc[t] = "probe"
  /\ LET p == candidates[t][i[t]]
         answer == PathExists(p)
         log == Append(probed[t], <<p, answer>>)
         step == FindStep(candidates[t], i[t], answer)
     IN CASE step = "found" ->
               /\ RELAY_PATH' = OnceLockSet(RELAY_PATH, p)
               /\ wrote' = [wrote EXCEPT ![t] = RELAY_PATH' # RELAY_PATH]
               /\ exe' = [exe EXCEPT ![t] = Some(p)]
               /\ probed' = [probed EXCEPT ![t] = log]
               /\ pc' = [pc EXCEPT ![t] = "spawn"]
               /\ firstPath' = IF firstPath = None THEN Some(p) ELSE firstPath
               /\ UNCHANGED <<inp, args, candidates, i, hit, after, last, resErrSeen>>
          [] step = "next" ->
               /\ i' = [i EXCEPT ![t] = i[t] + 1]
               /\ probed' = [probed EXCEPT ![t] = log]
               /\ UNCHANGED <<RELAY_PATH, pc, inp, args, candidates, exe, hit, wrote,
                              after, last, firstPath, resErrSeen>>
          [] step = "none" ->
               /\ RELAY_PATH' = CellAfterFailure(RELAY_PATH, candidates[t])
               /\ last' = Observe(observed,
                    [Returned(t, inp[t], args[t], Err(ResolutionErr(candidates[t])),
                              FALSE, None, FALSE)
                       EXCEPT !.probed = log, !.wrote = RELAY_PATH' # RELAY_PATH])
               /\ resErrSeen' = TRUE
               /\ Reset(t)
               /\ UNCHANGED firstPath
  /\ UNCHANGED <<fs, env>>

(***************************************************************************)
(* run_relay, lines 68-86: Command::new(&exe).args(args).output() and the   *)
(* CmdResult or error made of its answer.                                   *)
(***************************************************************************)
Spawn(t, statuses, outs, observed) ==
  /\ pc[t] = "spawn"
  /\ \E o \in Output(Unwrap(exe[t]), statuses, outs) :
       last' = Observe(observed,
                       Returned(t, inp[t], args[t], RunResult(Unwrap(exe[t]), o), TRUE,
                                IF o.launched THEN Some(o.status) ELSE None,
                                ~PathExists(Unwrap(exe[t]))))
  /\ Reset(t)
  /\ UNCHANGED <<fs, env, RELAY_PATH, firstPath, resErrSeen>>

(***************************************************************************)
(* The file system: relay.exe is put at, or taken from, a candidate path.   *)
(***************************************************************************)
FsChange(newfs) ==
  /\ fs' = newfs
  /\ UNCHANGED <<env, RELAY_PATH, pc, inp, args, candidates, i, probed, exe, hit, wrote,
                 after, last, firstPath, resErrSeen>>

FsCreate(p) == p \notin fs /\ FsChange(fs \cup {p})

FsRemove(p) == p \in fs /\ FsChange(fs \ {p})

(***************************************************************************)
(* The inputs the commands are called with, and the children's answers.     *)
(***************************************************************************)
Ports == {None, Some("COM3")}
Targets == {"all", "3"}
Relays == {0, 1, 8, 9, 255}
States == {"on", "off"}
Seconds == {None, Some(5), Some(20)}
Statuses == {Exited(0), Exited(2), Signaled(9)}
ChildOutputs == {<<79, 255>>}

Command(t, ports, targets, relays, states, seconds, observed) ==
  \/ relay_list_ports(t)
  \/ \E port \in ports, target \in targets : relay_status(t, port, target)
  \/ \E port \in ports, relay \in relays, state \in states, s \in seconds :
       relay_set(t, port, relay, state, s, observed)
  \/ \E port \in ports, state \in states, s \in seconds : relay_all(t, port, state, s)

Environment ==
  \/ \E p \in CandidatePaths(env) : FsCreate(p)
  \/ \E p \in CandidatePaths(env) : FsRemove(p)

\* Commands called from any thread at any time: relay_set with no port and
\* no duration, for relay 0 (rejected) and relay 1; results are not observed.
Next ==
  \/ \E t \in Threads, relay \in {0, 1} : relay_set(t, None, relay, "on", None, FALSE)
  \/ \E t \in Threads : Probe(t, FALSE)
  \/ \E t \in Threads : Spawn(t, {Exited(0)}, {<<>>}, FALSE)
  \/ Environment

Spec == Init /\ [][Next]_vars

\* Commands called one after the other from one thread with every input; a
\* child that runs exits with status 0.
NextCalls ==
  \/ Command(1, Ports, Targets, Relays, States, Seconds, TRUE)
  \/ Probe(1, TRUE)
  \/ Spawn(1, {Exited(0)}, {<<>>}, TRUE)
  \/ Environment

SpecCalls == Init /\ [][NextCalls]_vars

\* Commands called one after the other from one thread with no port and no
\* duration; a child that runs ends in every way.
NextOutcomes ==
  \/ Command(1, {None}, {"all"}, Relays, {"on"}, {None}, TRUE)
  \/ Probe(1, TRUE)
  \/ Spawn(1, Statuses, ChildOutputs, TRUE)
  \/ Environment

SpecOutcomes == Init /\ [][NextOutcomes]_vars

(***************************************************************************)
(* The properties.  They are stated on what a caller or an observer of the  *)
(* process sees: the parameters passed, the value returned, the probes made *)
(* of the file system, the child started and the content of RELAY_PATH.     *)
(***************************************************************************)

\* The declared search order of the candidate paths.
Rank(p) ==
  CASE p = <<"appdir", "relay.exe">> -> 1
    [] p = <<"procdir", "relay.exe">> -> 2
    [] p = <<"src-tauri", "bin", "relay.exe">> -> 3
    [] p = <<"src-tauri", "..", "relay.exe">> -> 4
    [] p = <<"src-tauri", "..", "..", "relay.exe">> -> 5

\* The stage an error value names, as a caller reads it off the message.
Stage(ret) ==
  IF ret.tag = "Ok" THEN "none"
  ELSE CASE Head(ret.e) = "Relay number must be 1..8" -> "validation"
         [] Head(ret.e) = "relay.exe not found. Checked:" -> "resolution"
         [] Head(ret.e) = "Failed to run " -> "launch"
         [] OTHER -> "unknown"

BadRelay(in) == in.op = "relay_set" /\ in.relay \notin 1..8

\* The thread's probes so far agree with the file system as it is now.
ProbesStillTrue(t) ==
  \A k \in 1..Len(probed[t]) : probed[t][k][2] = (probed[t][k][1] \in fs)

\* The thread has resolved the binary by searching, and is about to start it.
Searched(t) == pc[t] = "spawn" /\ ~hit[t]

\* C1: relay_set with a relay index outside 1..8 returns the validation
\* error, having probed no path, started no child and not written RELAY_PATH;
\* no such call ever gets as far as the resolution or the launch.
C1_InvalidRelayRejected ==
  /\ \A t \in Threads : pc[t] # "idle" /\ inp[t].op = "relay_set" => inp[t].relay \in 1..8
  /\ (last.done /\ BadRelay(last.inp)) =>
       /\ Stage(last.ret) = "validation"
       /\ last.ret.v = NoCmd
       /\ last.probed = <<>>
       /\ last.exe = None
       /\ ~last.attempted
       /\ ~last.wrote

C1_Witness ==
  /\ last.done /\ last.inp.op = "relay_set" /\ last.inp.relay = 255
  /\ last.inp.port # None /\ last.inp.seconds # None
  /\ fs = {} /\ RELAY_PATH = None

\* C2: with RELAY_PATH empty the candidates are probed in the declared order
\* without a gap, every probe before the last answered "absent", the search
\* ends at the first probe answered "present" and returns that path; so the
\* result is the lowest-ordered existing candidate of any file system that
\* agrees with the probes.
C2_FirstExistingInOrder ==
  \A t \in Threads :
    LET log == probed[t]
        n == Len(log)
    IN /\ \A j, k \in 1..n : j < k => Rank(log[j][1]) < Rank(log[k][1])
       /\ \A k \in 1..n : \A p \in CandidatePaths(env) :
            Rank(p) < Rank(log[k][1]) => \E j \in 1..n : j < k /\ log[j][1] = p
       /\ \A k \in 1..n : k < n => ~log[k][2]
       /\ pc[t] = "probe" => \A k \in 1..n : ~log[k][2]
       /\ Searched(t) => n >= 1 /\ log[n][2] /\ exe[t] = Some(log[n][1])
       /\ (Searched(t) /\ ProbesStillTrue(t)) =>
            /\ Unwrap(exe[t]) \in fs
            /\ \A p \in fs \cap CandidatePaths(env) : Rank(Unwrap(exe[t])) <= Rank(p)

C2_Witness ==
  \E t \in Threads :
    /\ Searched(t)
    /\ Len(Candidates(env)) = 5
    /\ fs = {<<"src-tauri", "bin", "relay.exe">>}
    /\ exe[t] = Some(<<"src-tauri", "bin", "relay.exe">>)
    /\ Len(probed[t]) = 3

\* C3: a command called after a resolution has succeeded gets the path of
\* that first successful resolution, without a single probe, whatever the
\* file system holds by then.
C3_CachedPathReused ==
  \A t \in Threads :
    (pc[t] # "idle" /\ after[t]) =>
      /\ pc[t] = "spawn"
      /\ exe[t] = firstPath
      /\ probed[t] = <<>>

C3_Witness ==
  \E t \in Threads :
    /\ pc[t] = "spawn" /\ after[t]
    /\ Unwrap(exe[t]) \notin fs
    /\ \E p \in fs : Rank(p) < Rank(Unwrap(exe[t]))

\* C4: as long as no resolution has succeeded RELAY_PATH is empty, however
\* many commands have returned the "not found" error; a command called then
\* searches again, and one that finds a candidate returns it.
C4_FailureNotCached ==
  /\ firstPath = None => RELAY_PATH = None
  /\ \A t \in Threads :
       (pc[t] # "idle" /\ ~after[t]) =>
         /\ ~hit[t]
         /\ pc[t] = "probe" => i[t] = Len(probed[t]) + 1
         /\ pc[t] = "spawn" =>
              /\ probed[t] # <<>>
              /\ probed[t][Len(probed[t])] = <<Unwrap(exe[t]), TRUE>>

C4_Witness ==
  /\ resErrSeen
  /\ \E t \in Threads :
       /\ Searched(t) /\ ~after[t] /\ wrote[t]
       /\ Unwrap(exe[t]) \in fs

\* C5: a child that was started and ended gives Ok(CmdResult) with ok true
\* exactly for exit status zero, code the exit code, and code absent exactly
\* when the child ended without one (and then ok is false).
C5_ExitStatusReported ==
  (last.done /\ IsSome(last.status)) =>
    LET st == Unwrap(last.status)
        r == last.ret.v
    IN /\ last.ret.tag = "Ok"
       /\ r.ok <=> (st.exited /\ st.n = 0)
       /\ st.exited => r.code = Some(st.n)
       /\ ~st.exited <=> r.code = None
       /\ r.code = None => ~r.ok
       /\ (st.exited /\ st.n = 2) => (~r.ok /\ r.code = Some(2))

C5_Witness ==
  /\ last.done /\ last.status = Some(Exited(2))
  /\ last.ret.tag = "Ok" /\ ~last.ret.v.ok /\ last.ret.v.code = Some(2)

\* C6: when the binary cannot be started, and always when its path does not
\* exist at that time (a path cached earlier included), the command returns
\* the "Failed to run" error with the attempted path and no CmdResult; a
\* child that ran is never reported that way.
C6_LaunchFailureNamesPath ==
  last.done =>
    /\ (last.attempted /\ last.missing) => last.status = None
    /\ (last.attempted /\ last.status = None) =>
         /\ Stage(last.ret) = "launch"
         /\ last.ret.v = NoCmd
         /\ last.ret.e[2] = PathDisplay(Unwrap(last.exe))
         /\ last.exe = Some(<<"src-tauri", "bin", "relay.exe">>) =>
              last.ret.e[2] = "src-tauri/bin/relay.exe"
    /\ IsSome(last.status) => last.ret.tag = "Ok"

C6_Witness ==
  /\ last.done /\ last.hit /\ last.missing
  /\ Stage(last.ret) = "launch"
  /\ last.exe = Some(<<"src-tauri", "bin", "relay.exe">>)

\* The argument grammar of the controller, written out.
RefDecimal(relay) ==
  CASE relay = 1 -> "1" [] relay = 2 -> "2" [] relay = 3 -> "3" [] relay = 4 -> "4"
    [] relay = 5 -> "5" [] relay = 6 -> "6" [] relay = 7 -> "7" [] relay = 8 -> "8"

RefSeconds(x) == CASE x = 5 -> "0.5" [] x = 20 -> "2"

RefArgs(in) ==
  LET port == IF in.port # None THEN <<"--port", in.port[1]>> ELSE <<>>
      body == CASE in.op = "relay_list_ports" -> <<"list-ports", "--json">>
                [] in.op = "relay_status" -> <<"status", in.target>>
                [] in.op = "relay_set" -> <<"relay", RefDecimal(in.relay), in.state>>
                [] in.op = "relay_all" -> <<"all", in.state>>
      secs == IF in.seconds # None /\ in.op \in {"relay_set", "relay_all"}
              THEN <<"--seconds", RefSeconds(in.seconds[1])>>
              ELSE <<>>
  IN port \o body \o secs

\* C7: the arguments a command hands to the child are those of the grammar,
\* in order: the --port pair exactly when a port was given, the command's
\* words, the --seconds pair exactly when a duration was given.
C7_ArgumentsFollowGrammar ==
  /\ \A t \in Threads : pc[t] # "idle" => args[t] = RefArgs(inp[t])
  /\ (last.done /\ last.attempted) => last.args = RefArgs(last.inp)

C7_Witness ==
  /\ last.done /\ last.attempted /\ IsSome(last.status)
  /\ last.inp.op = "relay_set" /\ last.inp.relay = 8
  /\ last.args = <<"--port", "COM3", "relay", "8", "on", "--seconds", "0.5">>

\* C8: a command returns the failure of the first stage that fails, and the
\* error names that stage: validation before any probe, "not found" only for
\* valid input after every candidate was probed absent and with no child
\* started, "Failed to run" only with a resolved path.
C8_FirstFailureByStage ==
  last.done =>
    /\ Stage(last.ret) \in {"none", "validation", "resolution", "launch"}
    /\ BadRelay(last.inp) => Stage(last.ret) = "validation"
    /\ Stage(last.ret) = "validation" =>
         BadRelay(last.inp) /\ last.probed = <<>> /\ ~last.attempted
    /\ Stage(last.ret) = "resolution" =>
         /\ ~BadRelay(last.inp)
         /\ ~last.attempted /\ last.exe = None /\ ~last.hit
         /\ Len(last.probed) = Len(last.cands) /\ Len(last.probed) >= 3
         /\ \A k \in 1..Len(last.probed) : ~last.probed[k][2]
    /\ Stage(last.ret) = "launch" =>
         /\ ~BadRelay(last.inp)
         /\ IsSome(last.exe) /\ last.attempted /\ last.status = None
    /\ Stage(last.ret) = "none" => last.attempted /\ IsSome(last.status)

C8_Witness ==
  /\ last.done /\ Stage(last.ret) = "validation"
  /\ fs = {} /\ RELAY_PATH = None

\* C9: once RELAY_PATH holds a path, no step changes or clears it.
C9_CacheWrittenOnce == [][RELAY_PATH # None => RELAY_PATH' = RELAY_PATH]_vars

C9_Witness ==
  \E t \in Threads :
    /\ Searched(t) /\ ~wrote[t]
    /\ exe[t] # RELAY_PATH

\* C10: every command that is about to start the binary starts the path
\* held in RELAY_PATH.
C10_LaunchesCachedPath ==
  \A t \in Threads : pc[t] = "spawn" => exe[t] = RELAY_PATH

====
